---------------------------- MODULE Spec2Model ----------------------------
(***************************************************************************)
(* A model of the chess rules engine: engine.GameState (board, side to     *)
(* move, move log, king locations, terminal flags), move.Move, and the     *)
(* calls the driver makes on them (get_valid_moves, make_move, undo_move). *)
(* Squares are (row, col) pairs with rows and columns 0..7 as in the       *)
(* source; pieces are the source's two-letter strings, "" is empty.        *)
(***************************************************************************)
EXTENDS Integers, Sequences, FiniteSets, TLC

VARIABLES board, white_move, movelog, checkmate, stalemate,
          white_king_loc, black_king_loc, \* the fields of the GameState
          valid_moves,  \* the caller's result of the latest get_valid_moves
          move_made,    \* the position changed since valid_moves was computed
          applied,      \* history: top-level moves applied and not yet undone
          undone        \* history: undo_move calls made so far

vars == <<board, white_move, movelog, checkmate, stalemate,
          white_king_loc, black_king_loc, valid_moves, move_made,
          applied, undone>>

\* Python's None, for the optional constructor arguments of Move.
None == -1

DIMENSION == 8

WhitePieces == {"wP", "wR", "wN", "wB", "wQ", "wK"}
BlackPieces == {"bP", "bR", "bN", "bB", "bQ", "bK"}

\* str.startswith(colour) on a board entry ("" starts with neither colour).
StartsWith(p, colour) ==
  IF colour = "w" THEN p \in WhitePieces ELSE p \in BlackPieces

\* player_piece[1]: the piece-type letter of a non-empty board entry.
PieceType(p) ==
  CASE p \in {"wP", "bP"} -> "P"
    [] p \in {"wR", "bR"} -> "R"
    [] p \in {"wN", "bN"} -> "N"
    [] p \in {"wB", "bB"} -> "B"
    [] p \in {"wQ", "bQ"} -> "Q"
    [] p \in {"wK", "bK"} -> "K"

OnBoard(x) == 0 <= x /\ x < 8

\* Python truthiness of an optional integer argument: None and 0 are falsy.
Truthy(x) == x # None /\ x # 0

(***************************************************************************)
(* move.Move                                                               *)
(***************************************************************************)
cols_to_files(col) == <<"a", "b", "c", "d", "e", "f", "g", "h">>[col + 1]

rows_to_ranks(row) == <<"8", "7", "6", "5", "4", "3", "2", "1">>[row + 1]

get_piece(b, row, col) == b[row][col]

\* The move id with the digits of the end square added instead of
\* appended.
move_id_of_added(sr, sc, er, ec) == (sr * 10 + sc) * 10 + er + ec

\* int(f"{startRow}{startCol}{endRow}{endCol}") for one-digit coordinates:
\* the four digits are concatenated and the string is read as a decimal.
move_id_of(sr, sc, er, ec) == ((sr * 10 + sc) * 10 + er) * 10 + ec

\* The label is kept as the tuple of its parts: piece letter, file, rank.
move_notation(piece_moved, er, ec) ==
  (IF piece_moved # "" THEN <<PieceType(piece_moved)>> ELSE <<>>)
    \o <<cols_to_files(ec), rows_to_ranks(er)>>

\* Move.__init__; secondary_move is <<>> for None, else <<rook_move>>.
Move(b, start, end, captured_row, captured_col, secondary_move) ==
  LET sr == start[1]
      sc == start[2]
      er == end[1]
      ec == end[2]
      pm == get_piece(b, sr, sc)
      cr == IF Truthy(captured_row) THEN captured_row ELSE er
      cc == IF Truthy(captured_col) THEN captured_col ELSE ec
  IN [startRow |-> sr, startCol |-> sc, endRow |-> er, endCol |-> ec,
      piece_moved |-> pm,
      piece_captured_row |-> cr, piece_captured_col |-> cc,
      piece_captured |-> get_piece(b, cr, cc),
      secondary_move |-> secondary_move,
      move_id |-> move_id_of(sr, sc, er, ec),
      PGN |-> move_notation(pm, er, ec)]

SimpleMove(b, start, end) == Move(b, start, end, None, None, <<>>)

\* board[i] for an integer i on a list of 8: an index in -8..-1 counts from
\* the end, any other index outside 0..7 raises IndexError.
IndexInRange(i) == -DIMENSION <= i /\ i < DIMENSION

ListIndex(i) == IF i < 0 THEN i + DIMENSION ELSE i

\* Move(board, start, end) for arbitrary integer coordinates: raised tells
\* whether the constructor raises.  get_piece raises IndexError for an
\* index out of range; int() of the concatenated coordinates raises
\* ValueError when a minus sign is not the first character; rows_to_ranks
\* and cols_to_files raise KeyError for an end coordinate outside 0..7.
MoveInit(b, start, end) ==
  IF /\ IndexInRange(start[1]) /\ IndexInRange(start[2])
     /\ IndexInRange(end[1]) /\ IndexInRange(end[2])
     /\ start[2] >= 0 /\ end[1] >= 0 /\ end[2] >= 0
     /\ OnBoard(end[1]) /\ OnBoard(end[2])
  THEN [raised |-> FALSE,
        piece_moved |-> b[ListIndex(start[1])][ListIndex(start[2])],
        piece_captured |-> b[end[1]][end[2]]]
  ELSE [raised |-> TRUE, piece_moved |-> "", piece_captured |-> ""]

\* Move.__eq__
MoveEq(m1, m2) == m1.move_id = m2.move_id

(***************************************************************************)
(* engine.GameState                                                        *)
(***************************************************************************)
InitBoard ==
  [r \in 0..7 |->
     CASE r = 0 -> [c \in 0..7 |->
                      <<"bR", "bN", "bB", "bQ", "bK", "bB", "bN", "bR">>[c + 1]]
       [] r = 1 -> [c \in 0..7 |-> "bP"]
       [] r = 6 -> [c \in 0..7 |-> "wP"]
       [] r = 7 -> [c \in 0..7 |->
                      <<"wR", "wN", "wB", "wQ", "wK", "wB", "wN", "wR">>[c + 1]]
       [] OTHER -> [c \in 0..7 |-> ""]]

\* GameState.__init__
NewGame ==
  [board |-> InitBoard, white_move |-> TRUE, movelog |-> <<>>,
   checkmate |-> FALSE, stalemate |-> FALSE,
   white_king_loc |-> <<7, 4>>, black_king_loc |-> <<0, 4>>]

SetSq(b, r, c, p) == [b EXCEPT ![r][c] = p]

\* self.white_move = not self.white_move
FlipTurn(g) == [g EXCEPT !.white_move = ~@]

\* The three board writes of make_move without the king bookkeeping.
ApplyMove_no_king_update(g, move, log) ==
  [g EXCEPT
     !.board = SetSq(SetSq(SetSq(@, move.startRow, move.startCol, ""),
                           move.piece_captured_row, move.piece_captured_col, ""),
                     move.endRow, move.endCol, move.piece_moved),
     !.movelog = IF log THEN Append(@, move) ELSE @]

\* The three board writes and the king bookkeeping of make_move.
ApplyMove(g, move, log) ==
  LET b1 == SetSq(g.board, move.startRow, move.startCol, "")
      b2 == SetSq(b1, move.piece_captured_row, move.piece_captured_col, "")
      b3 == SetSq(b2, move.endRow, move.endCol, move.piece_moved)
  IN [g EXCEPT
        !.board = b3,
        !.movelog = IF log THEN Append(@, move) ELSE @,
        !.white_king_loc =
           IF move.piece_moved = "wK" THEN <<move.endRow, move.endCol>> ELSE @,
        !.black_king_loc =
           IF move.piece_moved = "bK" THEN <<move.endRow, move.endCol>> ELSE @]

\* make_move with the recursive call for the secondary move made with the
\* default log=True.
make_move_logs_secondary(g, move) ==
  IF move.secondary_move # <<>>
  THEN FlipTurn(ApplyMove(ApplyMove(g, move, TRUE), move.secondary_move[1], TRUE))
  ELSE FlipTurn(ApplyMove(g, move, TRUE))

\* make_move(move, log=True): a secondary move is applied by the recursive
\* call with log=False, and only a move without one flips the turn.
make_move(g, move) ==
  IF move.secondary_move # <<>>
  THEN FlipTurn(ApplyMove(ApplyMove(g, move, TRUE), move.secondary_move[1], FALSE))
  ELSE FlipTurn(ApplyMove(g, move, TRUE))

\* The board writes of undo_move without the one that puts the captured
\* piece back.
RevertMove_no_capture(b, move) ==
  SetSq(SetSq(b, move.startRow, move.startCol, move.piece_moved),
        move.endRow, move.endCol, "")

\* The three board writes of undo_move for one move.
RevertMove(b, move) ==
  LET b1 == SetSq(b, move.startRow, move.startCol, move.piece_moved)
      b2 == SetSq(b1, move.endRow, move.endCol, "")
  IN SetSq(b2, move.piece_captured_row, move.piece_captured_col,
           IF move.piece_captured # "" THEN move.piece_captured ELSE "")

\* undo_move with the flip of the turn flag outside "if self.movelog:".
undo_move_flips_always(g) ==
  IF g.movelog # <<>>
  THEN FlipTurn([g EXCEPT
                   !.movelog = SubSeq(@, 1, Len(@) - 1),
                   !.board =
                      IF g.movelog[Len(g.movelog)].secondary_move # <<>>
                      THEN RevertMove(RevertMove(@, g.movelog[Len(g.movelog)]),
                                      g.movelog[Len(g.movelog)].secondary_move[1])
                      ELSE RevertMove(@, g.movelog[Len(g.movelog)])])
  ELSE FlipTurn(g)

\* undo_move
undo_move(g) ==
  IF g.movelog # <<>>
  THEN LET move == g.movelog[Len(g.movelog)]
           b1 == RevertMove(g.board, move)
           b2 == IF move.secondary_move # <<>>
                 THEN RevertMove(b1, move.secondary_move[1])
                 ELSE b1
       IN [g EXCEPT !.movelog = SubSeq(@, 1, Len(@) - 1),
                    !.board = b2,
                    !.white_move = ~@]
  ELSE g


Turn(g) == IF g.white_move THEN "w" ELSE "b"

\* One diagonal capture of get_pawn_moves: the guard is that the row and the
\* column are on the board and the target square is non-empty.
PawnTake(g, r, c, er, ec, colOk) ==
  IF OnBoard(er) /\ colOk /\ g.board[er][ec] # ""
  THEN <<SimpleMove(g.board, <<r, c>>, <<er, ec>>)>>
  ELSE <<>>

\* The forward steps of get_pawn_moves; dir is -1 for White, +1 for Black.
PawnPush(g, r, c, dir, homeRow) ==
  IF OnBoard(r + dir) /\ g.board[r + dir][c] = ""
  THEN <<SimpleMove(g.board, <<r, c>>, <<r + dir, c>>)>>
       \o (IF r = homeRow /\ g.board[r + 2 * dir][c] = ""
           THEN <<SimpleMove(g.board, <<r, c>>, <<r + 2 * dir, c>>)>>
           ELSE <<>>)
  ELSE <<>>

get_pawn_moves(g, moves, r, c) ==
  IF g.white_move
  THEN moves \o PawnPush(g, r, c, -1, 6)
             \o PawnTake(g, r, c, r - 1, c - 1, OnBoard(c - 1))
             \o PawnTake(g, r, c, r - 1, c + 1, c + 1 < 8)
  ELSE moves \o PawnPush(g, r, c, 1, 1)
             \o PawnTake(g, r, c, r + 1, c - 1, OnBoard(c - 1))
             \o PawnTake(g, r, c, r + 1, c + 1, c + 1 < 8)

\* The inner if/elif of get_en_passant for one colour.
EnPassantCapture(g, last_move, r, c, dir) ==
  IF last_move.endCol = c + 1
  THEN <<Move(g.board, <<r, c>>, <<r + dir, c + 1>>,
              last_move.endRow, last_move.endCol, <<>>)>>
  ELSE IF last_move.endCol = c - 1
  THEN <<Move(g.board, <<r, c>>, <<r + dir, c - 1>>,
              last_move.endRow, last_move.endCol, <<>>)>>
  ELSE <<>>

get_en_passant(g, moves, r, c) ==
  IF g.movelog = <<>> THEN moves
  ELSE LET last_move == g.movelog[Len(g.movelog)]
       IN IF PieceType(last_move.piece_moved) # "P" THEN moves
          ELSE IF g.white_move
          THEN (IF r = 3 /\ last_move.startRow = 1 /\ last_move.endRow = 3
                THEN moves \o EnPassantCapture(g, last_move, r, c, -1)
                ELSE moves)
          ELSE (IF r = 5 /\ last_move.startRow = 1 /\ last_move.endRow = 5
                THEN moves \o EnPassantCapture(g, last_move, r, c, 1)
                ELSE moves)

\* One target square of get_king_moves / get_knight_moves.
StepMove(g, r, c, er, ec) ==
  IF OnBoard(er) /\ OnBoard(ec) /\ ~StartsWith(g.board[er][ec], Turn(g))
  THEN <<SimpleMove(g.board, <<r, c>>, <<er, ec>>)>>
  ELSE <<>>

RECURSIVE StepMoves(_, _, _, _, _)
StepMoves(g, r, c, offsets, k) ==
  IF k > Len(offsets) THEN <<>>
  ELSE StepMove(g, r, c, r + offsets[k][1], c + offsets[k][2])
       \o StepMoves(g, r, c, offsets, k + 1)

\* for i in range(-1, 2): for j in range(-1, 2)
KingOffsets ==
  << <<-1, -1>>, <<-1, 0>>, <<-1, 1>>, <<0, -1>>, <<0, 0>>, <<0, 1>>,
     <<1, -1>>, <<1, 0>>, <<1, 1>> >>

KnightOffsets ==
  << <<2, 1>>, <<2, -1>>, <<1, 2>>, <<1, -2>>,
     <<-2, 1>>, <<-2, -1>>, <<-1, 2>>, <<-1, -2>> >>

get_king_moves(g, moves, r, c) == moves \o StepMoves(g, r, c, KingOffsets, 1)

get_knight_moves(g, moves, r, c) == moves \o StepMoves(g, r, c, KnightOffsets, 1)

\* The inner loop "for i in range(1, 8)" of get_rook_moves/get_bishop_moves:
\* an off-board square is skipped, the first occupied square ends the ray.
RECURSIVE Ray(_, _, _, _, _)
Ray(g, r, c, d, i) ==
  IF i >= 8 THEN <<>>
  ELSE LET end_row == r + d[1] * i
           end_col == c + d[2] * i
       IN IF OnBoard(end_row) /\ OnBoard(end_col)
          THEN LET endpiece == g.board[end_row][end_col]
               IN (IF ~StartsWith(endpiece, Turn(g))
                   THEN <<SimpleMove(g.board, <<r, c>>, <<end_row, end_col>>)>>
                   ELSE <<>>)
                  \o (IF endpiece # "" THEN <<>> ELSE Ray(g, r, c, d, i + 1))
          ELSE Ray(g, r, c, d, i + 1)

RookDirects == << <<-1, 0>>, <<0, -1>>, <<1, 0>>, <<0, 1>> >>

BishopDirects == << <<-1, -1>>, <<1, 1>>, <<-1, 1>>, <<1, -1>> >>

Rays(g, r, c, directs) ==
  Ray(g, r, c, directs[1], 1) \o Ray(g, r, c, directs[2], 1)
    \o Ray(g, r, c, directs[3], 1) \o Ray(g, r, c, directs[4], 1)

get_rook_moves(g, moves, r, c) == moves \o Rays(g, r, c, RookDirects)

get_bishop_moves(g, moves, r, c) == moves \o Rays(g, r, c, BishopDirects)

\* get_rook_moves appends to the list and returns that same list, so
\* moves.extend(...) appends the whole list to itself; likewise for the
\* bishop part.
ExtendWithItself(moves) == moves \o moves

get_queen_moves(g, moves, r, c) ==
  ExtendWithItself(
    get_bishop_moves(g, ExtendWithItself(get_rook_moves(g, moves, r, c)), r, c))

\* any(move starts from sq for move in self.movelog)
StartedFrom(log, sq) ==
  \E i \in 1..Len(log) : <<log[i].startRow, log[i].startCol>> = sq

\* One castle of get_castles on back row "row": the rook's corner column,
\* its target column, the king's target column and the columns between.
Castle(g, row, rookCol, rookTo, kingTo, between, label) ==
  IF ~StartedFrom(g.movelog, <<row, rookCol>>)
     /\ \A c \in between : g.board[row][c] = ""
  THEN LET rook_move == SimpleMove(g.board, <<row, rookCol>>, <<row, rookTo>>)
           king_move == Move(g.board, <<row, 4>>, <<row, kingTo>>,
                             None, None, <<rook_move>>)
       IN <<[king_move EXCEPT !.PGN = <<label>>]>>
  ELSE <<>>

get_castles(g, moves) ==
  LET row == IF g.white_move THEN 7 ELSE 0
  IN IF ~StartedFrom(g.movelog, <<row, 4>>)
     THEN moves \o Castle(g, row, 7, 5, 6, {5, 6}, "O-O")
                \o Castle(g, row, 0, 3, 2, {1, 2, 3}, "O-O-O")
     ELSE moves

\* The body of the double loop of get_possible_moves for one square.
PieceMoves(g, moves, r, c) ==
  LET player_piece == g.board[r][c]
  IN IF ~StartsWith(player_piece, Turn(g)) THEN moves
     ELSE LET piece == PieceType(player_piece)
          IN CASE piece = "P" ->
                    get_en_passant(g, get_pawn_moves(g, moves, r, c), r, c)
               [] piece = "K" ->
                    get_castles(g, get_king_moves(g, moves, r, c))
               [] piece = "Q" -> get_queen_moves(g, moves, r, c)
               [] piece = "R" -> get_rook_moves(g, moves, r, c)
               [] piece = "N" -> get_knight_moves(g, moves, r, c)
               [] piece = "B" -> get_bishop_moves(g, moves, r, c)

\* The double loop of get_possible_moves over squares lo..hi, numbered
\* row by row (square k is row k div 8, column k mod 8), each square
\* starting from the list the squares before it left.  The range is split
\* in halves, the first half evaluated before the second, so that the
\* evaluation stays shallow; the order of the squares is unchanged.
RECURSIVE ScanBoard(_, _, _, _)
ScanBoard(g, moves, lo, hi) ==
  IF lo = hi
  THEN PieceMoves(g, moves, lo \div DIMENSION, lo % DIMENSION)
  ELSE LET mid == (lo + hi) \div 2
           first == ScanBoard(g, moves, lo, mid)
           second == ScanBoard(g, first, mid + 1, hi)
       IN <<first, second>>[2]

get_possible_moves(g) == ScanBoard(g, <<>>, 0, DIMENSION * DIMENSION - 1)

\* any(move.endRow == row and move.endCol == col for move in possible_moves)
AnyEndsAt(possible_moves, row, col) ==
  \E i \in 1..Len(possible_moves) :
     possible_moves[i].endRow = row /\ possible_moves[i].endCol = col

\* square_attacked without the flips of the flag: the moves generated are
\* those of the side to move.
square_attacked_own_moves(g, row, col) ==
  [gs |-> g, result |-> AnyEndsAt(get_possible_moves(g), row, col)]

\* square_attacked: the flag is flipped, the opponent's moves generated, the
\* flag flipped back.  gs is the state the call leaves behind.
square_attacked(g, row, col) ==
  [gs |-> FlipTurn(FlipTurn(g)),
   result |-> AnyEndsAt(get_possible_moves(FlipTurn(g)), row, col)]

KingLoc(g) == IF g.white_move THEN g.white_king_loc ELSE g.black_king_loc

in_check(g) == square_attacked(g, KingLoc(g)[1], KingLoc(g)[2])

\* "if self.in_check:" tests the bound method itself, which is always true.
in_check_method_truthy == TRUE

\* check_game_state that also clears both flags when there is a move.
check_game_state_resets(g, moves) ==
  IF moves = <<>>
  THEN [g EXCEPT !.checkmate = TRUE]
  ELSE [g EXCEPT !.checkmate = FALSE, !.stalemate = FALSE]

check_game_state(g, moves) ==
  IF moves = <<>>
  THEN (IF in_check_method_truthy
        THEN [g EXCEPT !.checkmate = TRUE]
        ELSE [g EXCEPT !.stalemate = TRUE])
  ELSE g

\* list.remove(move): drops the first element equal to move (Move.__eq__).
\* The move comes from the copy of the list and is removed at most once per
\* occurrence, so an equal element is always present.
ListRemove(moves, move) ==
  LET hits == {i \in 1..Len(moves) : MoveEq(moves[i], move)}
  IN IF hits = {} THEN moves
     ELSE LET first == CHOOSE i \in hits : \A j \in hits : i <= j
          IN SubSeq(moves, 1, first - 1) \o SubSeq(moves, first + 1, Len(moves))

\* The end of one iteration of remove_selfchecks that leaves the loop body
\* after moves.remove(move), without the flip back and the undo.
SelfCheckEnd_skips_undo(st, move, chk) ==
  IF chk.result
  THEN [gs |-> chk.gs, moves |-> ListRemove(st.moves, move)]
  ELSE [gs |-> undo_move(FlipTurn(chk.gs)), moves |-> st.moves]

\* The end of one iteration of the loop of remove_selfchecks, given the
\* outcome chk of in_check(): the move is removed if in check, the flag is
\* flipped back and the move undone.
SelfCheckEnd(st, move, chk) ==
  [gs |-> undo_move(FlipTurn(chk.gs)),
   moves |-> IF chk.result THEN ListRemove(st.moves, move) ELSE st.moves]

\* One iteration of the loop of remove_selfchecks on st = [gs, moves]: the
\* move is made, the flag flipped to the mover, and in_check() called.
SelfCheckStep(st, move) ==
  SelfCheckEnd(st, move, in_check(FlipTurn(make_move(st.gs, move))))

\* Iterations lo..hi of "for move in moves.copy()", in order; the range is
\* split in halves so that the evaluation stays shallow.
RECURSIVE SelfCheckLoop(_, _, _, _)
SelfCheckLoop(st, copy, lo, hi) ==
  IF lo > hi THEN st
  ELSE IF lo = hi THEN SelfCheckStep(st, copy[lo])
  ELSE LET mid == (lo + hi) \div 2
           first == SelfCheckLoop(st, copy, lo, mid)
           second == SelfCheckLoop(first, copy, mid + 1, hi)
       IN <<first, second>>[2]

\* remove_selfchecks: iterates over moves.copy() and removes from moves.
remove_selfchecks(g, moves) ==
  SelfCheckLoop([gs |-> g, moves |-> moves], moves, 1, Len(moves))

\* The end of get_valid_moves, given st = [gs, moves] as remove_selfchecks
\* left them.
ValidMovesEnd(st) ==
  [gs |-> check_game_state(st.gs, st.moves), moves |-> st.moves]

\* get_valid_moves: [gs |-> the state afterwards, moves |-> the result].
get_valid_moves(g) ==
  ValidMovesEnd(remove_selfchecks(g, get_possible_moves(g)))

(***************************************************************************)
(* The calls made on one GameState                                         *)
(***************************************************************************)
GS ==
  [board |-> board, white_move |-> white_move, movelog |-> movelog,
   checkmate |-> checkmate, stalemate |-> stalemate,
   white_king_loc |-> white_king_loc, black_king_loc |-> black_king_loc]

SetGS(g) ==
  /\ board' = g.board
  /\ white_move' = g.white_move
  /\ movelog' = g.movelog
  /\ checkmate' = g.checkmate
  /\ stalemate' = g.stalemate
  /\ white_king_loc' = g.white_king_loc
  /\ black_king_loc' = g.black_king_loc

Init ==
  /\ board = NewGame.board
  /\ white_move = NewGame.white_move
  /\ movelog = NewGame.movelog
  /\ checkmate = NewGame.checkmate
  /\ stalemate = NewGame.stalemate
  /\ white_king_loc = NewGame.white_king_loc
  /\ black_king_loc = NewGame.black_king_loc
  /\ valid_moves = <<>>
  /\ move_made = TRUE
  /\ applied = 0
  /\ undone = 0

(***************************************************************************)
(* The caller's inputs.  A move is chosen among the entries of valid_moves *)
(* (the click pair matched by Move.__eq__); which entries are tried is     *)
(* bounded: every entry for the first move of a game, and afterwards the   *)
(* entries that continue one of the games below, up to MaxPly moves in the *)
(* log; undo_move is called at most MaxUndo times.  Moves are written as   *)
(* move ids (start row, start column, end row, end column).                *)
(***************************************************************************)
MaxPly == 17

MaxUndo == 1

\* Coordinates handed to the Move constructor lie at most OffBoard squares
\* beyond the indices a list of 8 accepts.
OffBoard == 2

Coordinates == (0 - DIMENSION - OffBoard)..(DIMENSION + OffBoard)

\* 1.e4 e6 2.d4 Bb4+
GameCheck == <<6444, 1424, 6343, 541>>

\* 1.e4 e6 2.d4 Nf6
GameTwoKingMoves == <<6444, 1424, 6343, 625>>

\* 1.f4 Nf6 2.a3 Ng4
GameKnight == <<6545, 625, 6050, 2546>>

\* 1.f3 e5 2.g4 Qh4
GameFoolsMate == <<6555, 1434, 6646, 347>>

\* 1.e4 Nf6 2.f4 Ng4 3.e5 d5
GameEnPassant == <<6444, 625, 6545, 2546, 4434, 1333>>

\* 1.e4 e5 2.d4 d6 3.Nf3 Bg4 4.Nc3 Qd7 5.Bc4 Be7 6.Be3 Nc6 7.Qd2 Nf6
Development ==
  <<6444, 1434, 6343, 1323, 7655, 246, 7152, 313, 7542, 514, 7254, 122,
    7363, 625>>

\* ... 8.O-O O-O-O 9.a3 h6
GameCastles == Development \o <<7476, 402, 6050, 1727>>

\* ... 8.Bxf7+ O-O-O
GameCastleIntoCheck == Development \o <<4215, 402>>

\* 1.Nf3 d5 2.Nc3 d4 3.e4
GameBlackEnPassant == <<7655, 1333, 7152, 3343, 6444>>

\* 1.e4 e6 2.d4 Bb4+ 3.a4 Bxe1
GameKingCaptured == GameCheck \o <<6040, 4174>>

\* 1.Nf3 b6 2.g3 Bb7 3.Bh3 e6 4.Nh4 Bxh1
GameRookCaptured == <<7655, 1121, 6656, 211, 7557, 1424, 5547, 1177>>

Games ==
  {GameCheck, GameTwoKingMoves, GameKnight, GameFoolsMate, GameEnPassant,
   GameCastles, GameCastleIntoCheck, GameBlackEnPassant, GameKingCaptured,
   GameRookCaptured}

LogIds == [i \in 1..Len(movelog) |-> movelog[i].move_id]

Continues(game, id) ==
  /\ Len(game) > Len(movelog)
  /\ SubSeq(game, 1, Len(movelog)) = LogIds
  /\ game[Len(movelog) + 1] = id

Chosen(move) ==
  /\ Len(movelog) < MaxPly
  /\ \/ movelog = <<>>
     \/ \E game \in Games : Continues(game, move.move_id)

(***************************************************************************)
(* The calls the driver makes on the GameState.  The GameState accepts     *)
(* them in any state, also once checkmate or stalemate is set.             *)
(***************************************************************************)
\* valid_moves = gs.get_valid_moves(), made when a move was made or undone.
SetResult(r) == SetGS(r.gs) /\ valid_moves' = r.moves

LegalMoves ==
  /\ move_made
  /\ SetResult(get_valid_moves(GS))
  /\ move_made' = FALSE
  /\ UNCHANGED <<applied, undone>>

\* valid_moves.index(move): the first entry equal to the clicked move.
IsIndexOf(moves, i) ==
  \A j \in 1..(i - 1) : ~MoveEq(moves[j], moves[i])

\* gs.make_move(move) with the entry of the current valid_moves that the
\* two clicks select.
MakeMove ==
  /\ ~move_made
  /\ \E i \in 1..Len(valid_moves) :
       /\ IsIndexOf(valid_moves, i)
       /\ Chosen(valid_moves[i])
       /\ SetGS(make_move(GS, valid_moves[i]))
  /\ move_made' = TRUE
  /\ applied' = applied + 1
  /\ UNCHANGED <<valid_moves, undone>>

\* gs.undo_move()
UndoMove ==
  /\ undone < MaxUndo
  /\ SetGS(undo_move(GS))
  /\ move_made' = TRUE
  /\ applied' = IF applied > 0 THEN applied - 1 ELSE 0
  /\ undone' = undone + 1
  /\ UNCHANGED valid_moves

Next == LegalMoves \/ MakeMove \/ UndoMove

Spec == Init /\ [][Next]_vars

(***************************************************************************)
(* The driver's loop, event by event.  main computes valid_moves once      *)
(* before the loop; a frame handles every event of one pygame.event.get()  *)
(* batch and only then, if move_made, computes valid_moves again.  A pair  *)
(* of clicks is matched against valid_moves as it is, and the undo key is  *)
(* handled whatever move_made is.  The loop ends once a flag is set.       *)
(* Clicked moves are bounded: any entry as the first move, afterwards the  *)
(* entries with an id in LaterClicks, up to MaxClicks moves in the log.    *)
(***************************************************************************)
MaxClicks == 2

\* e2-e4, d2-d4, e7-e5, d7-d5
LaterClicks == {6444, 6343, 1434, 1333}

\* gs = GameState(); move_made = False; valid_moves = gs.get_valid_moves()
InitFrames ==
  /\ board = get_valid_moves(NewGame).gs.board
  /\ white_move = get_valid_moves(NewGame).gs.white_move
  /\ movelog = get_valid_moves(NewGame).gs.movelog
  /\ checkmate = get_valid_moves(NewGame).gs.checkmate
  /\ stalemate = get_valid_moves(NewGame).gs.stalemate
  /\ white_king_loc = get_valid_moves(NewGame).gs.white_king_loc
  /\ black_king_loc = get_valid_moves(NewGame).gs.black_king_loc
  /\ valid_moves = get_valid_moves(NewGame).moves
  /\ move_made = FALSE
  /\ applied = 0
  /\ undone = 0

\* while running: ... if gs.stalemate or gs.checkmate: running = False
Running == ~(checkmate \/ stalemate)

Clicked(move) ==
  /\ Len(movelog) < MaxClicks
  /\ movelog = <<>> \/ move.move_id \in LaterClicks

\* Two MOUSEBUTTONDOWN events: the move they select is looked up in
\* valid_moves and made.
ClickMove ==
  /\ Running
  /\ \E i \in 1..Len(valid_moves) :
       /\ IsIndexOf(valid_moves, i)
       /\ Clicked(valid_moves[i])
       /\ SetGS(make_move(GS, valid_moves[i]))
  /\ move_made' = TRUE
  /\ applied' = applied + 1
  /\ UNCHANGED <<valid_moves, undone>>

\* A KEYDOWN event with the left arrow key.
UndoKey == Running /\ UndoMove

\* The end of a frame.
FrameEnd == Running /\ LegalMoves

NextFrames == ClickMove \/ UndoKey \/ FrameEnd

SpecFrames == InitFrames /\ [][NextFrames]_vars

(***************************************************************************)
(* Properties                                                              *)
(***************************************************************************)
\* valid_moves is the result of get_valid_moves for the current position.
Fresh == ~move_made

\* The squares of board b that hold piece p.
SquaresOf(b, p) ==
  {sq \in (0..7) \X (0..7) : b[sq[1]][sq[2]] = p}

King(colour) == IF colour = "w" THEN "wK" ELSE "bK"

\* Some square holding the King of the side to move in g is the destination
\* of a pseudo-legal move of the other side.
KingAttacked(g) ==
  \E sq \in SquaresOf(g.board, King(Turn(g))) :
     AnyEndsAt(get_possible_moves(FlipTurn(g)), sq[1], sq[2])

\* After make_move(move) in g, some square holding the mover's King is the
\* destination of a pseudo-legal move of the opponent.
LeavesKingAttacked(g, move) == KingAttacked(FlipTurn(make_move(g, move)))

HasMove(moves, id) == \E i \in 1..Len(moves) : moves[i].move_id = id

\* C1: every move returned by legal_moves leaves the mover's own King
\* unattacked: after make_move(m) the square holding the mover's King is
\* not the destination of any pseudo-legal move of the opponent.
C1_NoLegalMoveLeavesKingAttacked ==
  Fresh =>
    \A i \in 1..Len(valid_moves) : ~LeavesKingAttacked(GS, valid_moves[i])

\* C2: for every move m returned by legal_moves, make_move(m) followed by
\* undo_move() restores the board, the side-to-move flag and both recorded
\* King locations.
C2_MakeUndoRoundTrip ==
  Fresh =>
    \A i \in 1..Len(valid_moves) :
       LET g == undo_move(make_move(GS, valid_moves[i]))
       IN /\ g.board = board
          /\ g.white_move = white_move
          /\ g.white_king_loc = white_king_loc
          /\ g.black_king_loc = black_king_loc

\* C3: between the calls, white_king_loc is the square holding "wK" and
\* black_king_loc is the square holding "bK".
C3_KingLocations ==
  /\ board[white_king_loc[1]][white_king_loc[2]] = "wK"
  /\ board[black_king_loc[1]][black_king_loc[2]] = "bK"

\* C4: when legal_moves finds no legal move, checkmate is set if and only if
\* the King of the side to move is attacked, and otherwise stalemate is set
\* and checkmate stays false; when there is a legal move neither flag is
\* changed.  (Stated for the calls of a game without undo, where both flags
\* are false until a call of legal_moves sets one.)
C4_TerminalDetection ==
  (Fresh /\ undone = 0) =>
    IF valid_moves = <<>>
    THEN /\ checkmate <=> KingAttacked(GS)
         /\ ~KingAttacked(GS) => (stalemate /\ ~checkmate)
    ELSE ~checkmate /\ ~stalemate

\* The 8 single and 8 double pawn steps and the 4 knight moves of White in
\* the starting position.
OpeningMoveIds ==
  {6000 + 100 * c + 50 + c : c \in 0..7}
    \cup {6000 + 100 * c + 40 + c : c \in 0..7}
    \cup {7150, 7152, 7655, 7657}

\* C5: in the starting position legal_moves returns exactly 20 moves for
\* White: the 16 pawn steps and the 4 knight moves, each once.
C5_TwentyOpeningMoves ==
  (Fresh /\ movelog = <<>>) =>
    /\ Len(valid_moves) = 20
    /\ \A id \in OpeningMoveIds :
         Cardinality({i \in 1..Len(valid_moves) : valid_moves[i].move_id = id}) = 1

\* The destinations of moves are never squares holding a piece of the
\* colour to move in g.
NoOwnDestination(g, moves) ==
  \A i \in 1..Len(moves) :
     ~StartsWith(g.board[moves[i].endRow][moves[i].endCol], Turn(g))

\* C6: no pseudo-legal move of the side to move, of any piece kind, ends on
\* a square occupied by a piece of that side.
C6_NoOwnPieceDestination == NoOwnDestination(GS, get_possible_moves(GS))

\* C7: in the game 1.f3 e5 2.g4 Qh4, played with legal_moves called before
\* each move, Qh4 is among Black's legal moves; after it the white King's
\* square is attacked, legal_moves returns no move and checkmate is true.
C7_FoolsMate ==
  (undone = 0) =>
    /\ (Fresh /\ LogIds = SubSeq(GameFoolsMate, 1, 3)) =>
         \E i \in 1..Len(valid_moves) :
            /\ valid_moves[i].move_id = GameFoolsMate[4]
            /\ valid_moves[i].piece_moved = "bQ"
    /\ (LogIds = GameFoolsMate) =>
         /\ white_move
         /\ AnyEndsAt(get_possible_moves(FlipTurn(GS)), 7, 4)
         /\ board[7][4] = "wK"
    /\ (Fresh /\ LogIds = GameFoolsMate) =>
         /\ valid_moves = <<>>
         /\ checkmate

\* The game of C7 has been played and legal_moves has answered.
C7_Played ==
  /\ undone = 0
  /\ Fresh
  /\ LogIds = GameFoolsMate
  /\ checkmate

\* The last logged move is a two-square advance of a black pawn.
BlackDoubleStep ==
  /\ movelog # <<>>
  /\ movelog[Len(movelog)].piece_moved = "bP"
  /\ movelog[Len(movelog)].startRow = 1
  /\ movelog[Len(movelog)].endRow = 3

\* moves holds the en passant capture by the white pawn on (3, c) of the
\* pawn that has just advanced to (3, col): it ends on (2, col), records
\* (3, col) as the captured square, empties that square when made and
\* brings the black pawn back when undone.
HasEnPassant(g, moves, c, col) ==
  \E i \in 1..Len(moves) :
     /\ moves[i].startRow = 3 /\ moves[i].startCol = c
     /\ moves[i].endRow = 2 /\ moves[i].endCol = col
     /\ moves[i].piece_captured_row = 3
     /\ moves[i].piece_captured_col = col
     /\ make_move(g, moves[i]).board[3][col] = ""
     /\ undo_move(make_move(g, moves[i])).board[3][col] = "bP"

\* C8: when Black has just advanced a pawn two squares to land beside a
\* white pawn on row 3, White's legal moves include the capture of that
\* pawn onto row 2 behind it; making it empties the black pawn's square and
\* undoing it restores the pawn.
C8_WhiteEnPassant ==
  (Fresh /\ white_move /\ BlackDoubleStep) =>
    \A c \in 0..7 :
       (/\ board[3][c] = "wP"
        /\ c - movelog[Len(movelog)].endCol \in {-1, 1})
         => HasEnPassant(GS, valid_moves, c, movelog[Len(movelog)].endCol)

\* The row on which colour castles.
HomeRow(colour) == IF colour = "w" THEN 7 ELSE 0

\* No logged move of g starts from the original square of the King or of
\* either Rook of the side to move, and the squares between the King and
\* each Rook are empty.
CastlingOpen(g) ==
  /\ \A c \in {0, 4, 7} : ~StartedFrom(g.movelog, <<HomeRow(Turn(g)), c>>)
  /\ \A c \in {1, 2, 3, 5, 6} : g.board[HomeRow(Turn(g))][c] = ""

IsCastle(move) == move.secondary_move # <<>>

\* The castling move of the side to move in g that takes the King to
\* column kingTo is in moves.
HasCastle(g, moves, kingTo) ==
  \E i \in 1..Len(moves) :
     /\ IsCastle(moves[i])
     /\ moves[i].startRow = HomeRow(Turn(g)) /\ moves[i].startCol = 4
     /\ moves[i].endRow = HomeRow(Turn(g)) /\ moves[i].endCol = kingTo

\* The side to move in g has a castling move in the log.
HasCastled(g) ==
  \E i \in 1..Len(g.movelog) :
     /\ IsCastle(g.movelog[i])
     /\ g.movelog[i].piece_moved = King(Turn(g))

\* Once a side has castled, none of its later legal-move lists holds a
\* castling move.
NoCastleAfterCastling ==
  (Fresh /\ HasCastled(GS)) =>
    \A i \in 1..Len(valid_moves) : ~IsCastle(valid_moves[i])

\* C9 as stated: for either colour, when no logged move starts from the
\* original square of the King or of either Rook and the squares between
\* the King and each Rook are empty, legal_moves includes both castling
\* moves; after a castling move has been played no castling move of that
\* colour appears again.
C9_CastlingAsStated ==
  /\ (Fresh /\ CastlingOpen(GS)) =>
       (HasCastle(GS, valid_moves, 6) /\ HasCastle(GS, valid_moves, 2))
  /\ NoCastleAfterCastling

\* The square on which the King of the side to move in g lands by the
\* castling move to column kingTo is, after that move, the destination of a
\* pseudo-legal move of the opponent.
CastledKingAttacked(g, moves, kingTo) ==
  \E i \in 1..Len(moves) :
     /\ IsCastle(moves[i])
     /\ moves[i].endCol = kingTo
     /\ AnyEndsAt(get_possible_moves(make_move(g, moves[i])),
                  HomeRow(Turn(g)), kingTo)

\* Under CastlingOpen with the King on its original square, both castling
\* moves are pseudo-legal, and each is in legal iff the square the King
\* lands on is not attacked after it.
CastlesOffered(g, possible_moves, legal) ==
  (CastlingOpen(g) /\ g.board[HomeRow(Turn(g))][4] = King(Turn(g))) =>
    \A kingTo \in {2, 6} :
       /\ HasCastle(g, possible_moves, kingTo)
       /\ HasCastle(g, legal, kingTo)
            <=> ~CastledKingAttacked(g, possible_moves, kingTo)

\* C9, amended: for either colour, when the King stands on its original
\* square, no logged move starts from that square or from either Rook's
\* original square and the squares between the King and each Rook are
\* empty, both castling moves are pseudo-legal, and legal_moves includes
\* each of them exactly when the square the King lands on is not attacked
\* after the move; after a castling move has been played no castling move of
\* that colour appears again.
C9_Castling ==
  /\ Fresh => CastlesOffered(GS, get_possible_moves(GS), valid_moves)
  /\ NoCastleAfterCastling

\* Black may castle on both sides by the log and the board, and legal_moves
\* offers the queenside castle only, the kingside landing square being
\* attacked.
C9_OneCastleFiltered ==
  /\ Fresh
  /\ ~white_move
  /\ CastlingOpen(GS)
  /\ HasCastle(GS, valid_moves, 2)
  /\ ~HasCastle(GS, valid_moves, 6)

\* undo_move called until the log of g is empty, with the number of calls.
RECURSIVE UndoAll(_, _)
UndoAll(g, steps) ==
  IF g.movelog = <<>>
  THEN [gs |-> g, steps |-> steps]
  ELSE UndoAll(undo_move(g), steps + 1)

\* C10: from any reachable state, calling undo_move until the log is empty
\* restores the initial board with White to move, and takes as many calls
\* as there are moves applied and not undone.
C10_UndoAllRestoresStart ==
  /\ UndoAll(GS, 0).gs.board = InitBoard
  /\ UndoAll(GS, 0).gs.white_move
  /\ UndoAll(GS, 0).steps = applied

\* A game with a capture and a castling move in the log, after an undo.
C10_LongGameUndone ==
  /\ undone > 0
  /\ \E i \in 1..Len(movelog) : IsCastle(movelog[i])
  /\ \E i \in 1..Len(movelog) : movelog[i].piece_captured # ""

\* C11: the checkmate and stalemate flags change only inside legal_moves,
\* never inside make_move or undo_move, and a flag that is true stays true
\* over every later call.
C11_StickyFlags ==
  [][/\ move_made' => (checkmate' = checkmate /\ stalemate' = stalemate)
     /\ checkmate => checkmate'
     /\ stalemate => stalemate']_vars

\* checkmate was set, a move was undone, and a later legal_moves call found
\* moves.
C11_FlagKeptAfterUndo ==
  /\ checkmate
  /\ undone > 0
  /\ Fresh
  /\ valid_moves # <<>>

\* C12: a top-level make_move of a legal move flips the side to move once
\* and appends exactly that move to the log, also for a castling move: the
\* Rook's move is not logged and does not flip the turn again.
C12_OneFlipOneLogEntry ==
  Fresh =>
    \A i \in 1..Len(valid_moves) :
       /\ make_move(GS, valid_moves[i]).white_move = ~white_move
       /\ make_move(GS, valid_moves[i]).movelog = Append(movelog, valid_moves[i])

\* A castling move has been made from a legal-move list that offered it.
C12_CastleMade ==
  /\ move_made
  /\ movelog # <<>>
  /\ IsCastle(movelog[Len(movelog)])
  /\ HasCastle(undo_move(GS), valid_moves, movelog[Len(movelog)].endCol)

\* C13: undo_move with an empty log changes nothing: board, side to move,
\* King locations, log and terminal flags are as before.
C13_EmptyLogUndoIsNoOp ==
  (movelog = <<>>) => (undo_move(GS) = GS)

\* undo_move was called on the new game, before any other call.
C13_UndoneOnNewGame ==
  /\ undone > 0
  /\ applied = 0
  /\ movelog = <<>>
  /\ valid_moves = <<>>
  /\ board = InitBoard

\* The move ids of all pairs of squares of the board.
BoardMoveIds ==
  {move_id_of(sr, sc, er, ec) : sr \in 0..7, sc \in 0..7, er \in 0..7, ec \in 0..7}

\* move is equal (Move.__eq__) to the move built from its two squares alone
\* on board b, as the driver builds it from two clicks.
EqualsClickedMove(b, move) ==
  MoveEq(move, SimpleMove(b, <<move.startRow, move.startCol>>,
                          <<move.endRow, move.endCol>>))

SameSquares(m1, m2) ==
  /\ m1.startRow = m2.startRow /\ m1.startCol = m2.startCol
  /\ m1.endRow = m2.endRow /\ m1.endCol = m2.endCol

\* C14: moves with coordinates in 0..7 are equal if and only if their start
\* and end squares are equal: the move id is different for different pairs
\* of squares (there are as many ids as pairs), and captured piece, captured
\* square and secondary move play no part, so a legal move equals the move
\* built from its two squares alone.
C14_MoveEquality ==
  /\ Cardinality(BoardMoveIds) = 8 * 8 * 8 * 8
  /\ Fresh =>
       \A i \in 1..Len(valid_moves) :
          /\ EqualsClickedMove(board, valid_moves[i])
          /\ \A j \in 1..Len(valid_moves) :
                MoveEq(valid_moves[i], valid_moves[j])
                  <=> SameSquares(valid_moves[i], valid_moves[j])

\* A legal move with a captured square off its end square or with a
\* secondary move equals the plain move between the same squares.
C14_SpecialMoveMatched ==
  /\ Fresh
  /\ \E i \in 1..Len(valid_moves) :
        /\ \/ IsCastle(valid_moves[i])
           \/ valid_moves[i].piece_captured_row # valid_moves[i].endRow
        /\ EqualsClickedMove(board, valid_moves[i])
        /\ valid_moves[i] #
             SimpleMove(board, <<valid_moves[i].startRow, valid_moves[i].startCol>>,
                        <<valid_moves[i].endRow, valid_moves[i].endCol>>)

\* C15: constructing a Move with a start or end square that has a
\* coordinate outside 0..7, negative ones included, fails with an error
\* instead of producing a Move.
C15_OffBoardSquareRejected ==
  \A sr \in Coordinates, sc \in Coordinates, er \in Coordinates, ec \in Coordinates :
     ~(OnBoard(sr) /\ OnBoard(sc) /\ OnBoard(er) /\ OnBoard(ec))
       => MoveInit(board, <<sr, sc>>, <<er, ec>>).raised

Pawn(colour) == IF colour = "w" THEN "wP" ELSE "bP"

Opponent(colour) == IF colour = "w" THEN "b" ELSE "w"

\* The direction in which the pawns of colour advance.
Forward(colour) == IF colour = "w" THEN -1 ELSE 1

\* The last logged move of g is a two-square advance of a pawn of the side
\* not to move, landing on (r, col).
DoubleStepTo(g, r, col) ==
  /\ g.movelog # <<>>
  /\ g.movelog[Len(g.movelog)].piece_moved = Pawn(Opponent(Turn(g)))
  /\ g.movelog[Len(g.movelog)].startRow = r - 2 * Forward(Opponent(Turn(g)))
  /\ g.movelog[Len(g.movelog)].startCol = col
  /\ g.movelog[Len(g.movelog)].endRow = r
  /\ g.movelog[Len(g.movelog)].endCol = col

\* The en passant captures the rule gives the side to move in g, each as
\* <<start row, start column, end row, end column, captured row, captured
\* column>>: a pawn on (r, c) beside the pawn that has just advanced two
\* squares to (r, col) captures it onto the square it passed over.
EnPassantByRule(g) ==
  {<<r, c, r + Forward(Turn(g)), col, r, col>> :
     <<r, c, col>> \in
       {t \in (0..7) \X (0..7) \X (0..7) :
          /\ g.board[t[1]][t[2]] = Pawn(Turn(g))
          /\ t[3] - t[2] \in {-1, 1}
          /\ DoubleStepTo(g, t[1], t[3])}}

\* The pawn moves in moves whose captured square is not the end square.
EnPassantIn(moves) ==
  {<<moves[i].startRow, moves[i].startCol, moves[i].endRow, moves[i].endCol,
     moves[i].piece_captured_row, moves[i].piece_captured_col>> :
     i \in {k \in 1..Len(moves) :
              /\ moves[k].piece_moved \in {"wP", "bP"}
              /\ moves[k].piece_captured_row # moves[k].endRow}}

\* C16: for White and for Black alike, the pseudo-legal moves of the side
\* to move hold an en passant capture by a pawn if and only if the last
\* logged move was a two-square advance of an opponent's pawn landing beside
\* that pawn; the capture ends on the square passed over and records the
\* advanced pawn's square as the captured square.
C16_EnPassantBothColours ==
  EnPassantIn(get_possible_moves(GS)) = EnPassantByRule(GS)

\* Board b holds exactly one white and exactly one black King.
OneKingEach(b) ==
  /\ Cardinality(SquaresOf(b, "wK")) = 1
  /\ Cardinality(SquaresOf(b, "bK")) = 1

\* C17: in every state reached by making only moves returned by
\* legal_moves, with undo_move interleaved, the board holds exactly one wK
\* and exactly one bK, and no legal move removes or overwrites a King.
C17_ExactlyOneKingEach ==
  /\ OneKingEach(board)
  /\ Fresh =>
       \A i \in 1..Len(valid_moves) :
          OneKingEach(make_move(GS, valid_moves[i]).board)

\* g and h have the same board, side to move and move log.
SamePosition(g, h) ==
  /\ g.board = h.board
  /\ g.white_move = h.white_move
  /\ g.movelog = h.movelog

Rook(colour) == IF colour = "w" THEN "wR" ELSE "bR"

\* The secondary move of the castling move "move" of the side to move in g
\* moves that side's Rook, standing on a corner of its home row.
MovesOwnRook(g, move) ==
  /\ move.secondary_move[1].piece_moved = Rook(Turn(g))
  /\ move.secondary_move[1].startRow = HomeRow(Turn(g))
  /\ move.secondary_move[1].startCol \in {0, 7}
  /\ g.board[move.secondary_move[1].startRow][move.secondary_move[1].startCol]
       = Rook(Turn(g))

\* C19: every castling move generated for the side to move carries a
\* secondary move that moves that side's own Rook from its original corner;
\* no castling move is generated when the corner does not hold that Rook.
C19_CastleMovesOwnRook ==
  \A i \in 1..Len(get_possible_moves(GS)) :
     IsCastle(get_possible_moves(GS)[i])
       => MovesOwnRook(GS, get_possible_moves(GS)[i])

\* C20: in the driver's loop, whatever the events and however many arrive
\* in one frame, a move is passed to make_move only while the cached
\* valid_moves is the legal_moves result for the state as it is at that
\* moment, that is, computed with no make_move or undo_move since
\* (move_made is false), and the move is an element of it.
C20_ClickedMoveIsCurrentlyLegal ==
  [][(applied' = applied + 1) =>
       /\ ~move_made
       /\ \E i \in 1..Len(valid_moves) :
             valid_moves[i] = movelog'[Len(movelog')]]_vars

=============================================================================
